---- MODULE Spec2Model ----
(***************************************************************************)
(* The email gateway of src/app/email/emailServiceWorkshop.js: the cached *)
(* nodemailer transporter (createTransporter), sendEmail with its          *)
(* Promise.race against a 30 s timer, and sendWorkshopConfirmation.        *)
(*                                                                         *)
(* Every action is one run-to-completion segment of the event loop: the    *)
(* synchronous part of a call up to its first await, or the continuation   *)
(* that a settled promise / a fired timer resumes.                         *)
(***************************************************************************)
EXTENDS Integers, Sequences, FiniteSets, TLC

\* ------------------------------------------------------------- bounds
\* Number of calls of the public API that are issued (call ids are issue order).
MaxCalls == 2
\* Number of times the clock is advanced.
MaxTicks == 2
\* Longest html body enumerated over HtmlAlphabet.
MaxHtmlLen == 4
\* Longest logo list handed to the carousel.
MaxLogos == 3
\* Largest columnCount handed to the carousel.
MaxColumns == 3
\* Number of 100 ms frames the carousel is run for (three cycles of 2 s).
MaxFrames == 60

\* ---------------------------------------------------------- constants
TRANSPORTER_TTL == 30 * 60 * 1000
EMAIL_TIMEOUT == 30000

\* Clock advances: 1 ms, the e-mail timeout, and just under the TTL, so that the
\* ages TTL - 1 and TTL of a transport and 1 and 30000 of a timer all occur.
TickSteps == {1, EMAIL_TIMEOUT, TRANSPORTER_TTL - 1}

\* ------------------------------------------------------ JavaScript values
\* A value is undefined or a string; a string's payload is a TLA+ string, or a
\* sequence of characters where the code looks inside it (html, text, port).
Undefined == <<"undefined">>
Str(s) == <<"string", s>>
\* JavaScript truthiness of undefined / string: !v is true for undefined and "".
Truthy(v) == v[1] = "string" /\ Len(v[2]) > 0
\* v || d
OrElse(v, d) == IF Truthy(v) THEN v ELSE d

NoCode == "undefined"
Err(m, c) == [message |-> m, code |-> c]

\* --------------------------------------------------------- environment
PLACEHOLDER_USER == Str("YOUR_EMAIL_HERE")
PLACEHOLDER_PASSWORD == Str("YOUR_APP_PASSWORD_HERE")
RealUser == Str("websters@shivaji.example")
RealPassword == Str("app-password")

EnvAll ==
    [EMAIL_USER : {Undefined, Str(""), PLACEHOLDER_USER, RealUser},
     EMAIL_PASSWORD : {Undefined, Str(""), PLACEHOLDER_PASSWORD, RealPassword},
     EMAIL_HOST : {Undefined, Str("smtp.college.example")},
     EMAIL_PORT : {Undefined, Str(<<"4", "6", "5">>)},
     EMAIL_SECURE : {Undefined, Str("true"), Str("false")}]

\* The two deployments the concurrency model runs in: nothing configured
\* (ethereal test account) and credentials configured with defaults.
EnvMain ==
    {e \in EnvAll :
        /\ e.EMAIL_HOST = Undefined /\ e.EMAIL_PORT = Undefined
        /\ e.EMAIL_SECURE = Undefined
        /\ \/ e.EMAIL_USER = Undefined /\ e.EMAIL_PASSWORD = Undefined
           \/ e.EMAIL_USER = RealUser /\ e.EMAIL_PASSWORD = RealPassword}

\* Outcomes the environment can produce.
ProvisionErrors == {Err("getaddrinfo ENOTFOUND api.nodemailer.com", "ENOTFOUND")}
ConstructErrors == {Err("Cannot create transport", NoCode)}
DeliveryErrors == {Err("Invalid login", "EAUTH")}
TestAccount == [user |-> Str("ethereal.user"), pass |-> Str("ethereal.pass")]
\* The Message-ID nodemailer reports for the k-th sendMail of the process.
MessageIdOf(k) == <<"message-id", k>>

\* ------------------------------------------------------------- inputs
HtmlHello == <<"<", "p", ">", "H", "i", "<", "/", "p", ">">>
TextHello == <<"H", "e", "y">>

SendEmailInputs ==
    [to : {Undefined, Str("student@example.com")},
     subject : {Str(""), Str("Workshop")},
     html : {Undefined, Str(<<>>), Str(HtmlHello)},
     text : {Undefined, Str(TextHello)}]

\* The html bodies the plain-text fallback is examined on: every string of at most
\* MaxHtmlLen characters over '<', '>' and a letter (unclosed, nested and stray
\* brackets included), and a nested document.
HtmlAlphabet == {"<", ">", "a"}
HtmlExample ==
    <<"<", "p", ">", "H", "e", "l", "l", "o", " ", "<", "b", ">", "W", "o", "r", "l", "d",
      "<", "/", "b", ">", "<", "/", "p", ">">>
HtmlBodies == UNION {[1 .. n -> HtmlAlphabet] : n \in 1 .. MaxHtmlLen} \cup {HtmlExample}

BodyInputs ==
    [to : {Str("student@example.com")},
     subject : {Str("Workshop")},
     html : {Str(h) : h \in HtmlBodies},
     text : {Undefined, Str(<<>>), Str(TextHello)}]

WorkshopInputs ==
    [email : {Undefined, Str("student@example.com")},
     name : {Undefined, Str(""), Str("Asha")},
     subject : {Str(""), Str("Workshop")},
     template : {Undefined, Str(HtmlHello)}]

CallIds == 1 .. MaxCalls

\* -------------------------------------------------------------- state
VARIABLES
    env,                   \* process.env (read-only)
    now,                   \* Date.now()
    ticks,                 \* how often the clock was advanced
    cachedTransporter,     \* module variable: 0 is null, k > 0 the k-th transport
    transporterCreatedAt,  \* module variable
    transports,            \* the transports built: options and the timestamp stored with each
    io,                    \* calls made to nodemailer / setTimeout
    calls,                 \* the activations of sendEmail / sendWorkshopConfirmation
    overlap,               \* history: some call was issued while another was in flight
    phase,                 \* LogoCarousel: "unmounted", "rendered" (effects pending), "running", "crashed"
    logos,                 \* LogoCarousel prop
    columnCount,           \* LogoCarousel prop
    logoSets,              \* LogoCarousel state
    currentTime,           \* LogoCarousel state
    currentIndex           \* per rendered LogoColumn, the index its last render selected

emailVars ==
    <<env, now, ticks, cachedTransporter, transporterCreatedAt, transports, io, calls, overlap>>

carouselVars == <<phase, logos, columnCount, logoSets, currentTime, currentIndex>>

vars == <<emailVars, carouselVars>>

NoTransporter == 0
NoInput == [none |-> TRUE]
NoResult == [settled |-> FALSE]
NoPromise == [state |-> "none"]
NoTimer == [state |-> "none", due |-> 0]

Fulfilled(v) == [state |-> "fulfilled", value |-> v]
Rejected(e) == [state |-> "rejected", reason |-> e]

IdleCall ==
    [pc |-> "idle", api |-> "none", input |-> NoInput, args |-> NoInput,
     now |-> 0, transporter |-> NoPromise, mailOptions |-> NoInput,
     emailPromise |-> NoPromise, timer |-> NoTimer, result |-> NoResult]

EmailInit(envs) ==
    /\ env \in envs
    /\ now = 0
    /\ ticks = 0
    /\ cachedTransporter = NoTransporter
    /\ transporterCreatedAt = 0
    /\ transports = <<>>
    /\ io = [createTestAccount |-> 0, createTransport |-> 0, sendMail |-> 0, setTimeout |-> 0]
    /\ calls = [c \in CallIds |-> IdleCall]
    /\ overlap = FALSE

\* No LogoCarousel is mounted in the process that sends mail.
CarouselUnmounted ==
    /\ phase = "unmounted"
    /\ logos = <<>>
    /\ columnCount = 2
    /\ logoSets = <<>>
    /\ currentTime = 0
    /\ currentIndex = <<>>

InitWith(envs) == EmailInit(envs) /\ CarouselUnmounted

Init == InitWith(EnvMain)

\* Every configuration of the environment.
InitConfig == InitWith(EnvAll)

\* ------------------------------------------------------ pure functions
DigitValue ==
    ("0" :> 0) @@ ("1" :> 1) @@ ("2" :> 2) @@ ("3" :> 3) @@ ("4" :> 4) @@
    ("5" :> 5) @@ ("6" :> 6) @@ ("7" :> 7) @@ ("8" :> 8) @@ ("9" :> 9)

NaN == -1

RECURSIVE ParseDigits(_, _, _)
ParseDigits(s, i, acc) ==
    IF i > Len(s) \/ s[i] \notin DOMAIN DigitValue
    THEN acc
    ELSE ParseDigits(s, i + 1, 10 * acc + DigitValue[s[i]])

\* parseInt(s, 10) of a string without sign or leading blanks: the value of the
\* leading decimal digits, NaN when there is none.
ParseInt(s) ==
    IF Len(s) = 0 \/ s[1] \notin DOMAIN DigitValue THEN NaN ELSE ParseDigits(s, 1, 0)

\* Mutant: the quantifier is greedy over every character, /<.*>/: the match runs to
\* the last '>'.
TagEnd_Greedy(s, i) ==
    IF \E j \in (i + 1) .. Len(s) : s[j] = ">"
    THEN CHOOSE j \in (i + 1) .. Len(s) :
            /\ s[j] = ">"
            /\ \A k \in (j + 1) .. Len(s) : s[k] # ">"
    ELSE 0

\* The end of the match of /<[^>]*>/ that starts at the '<' at position i:
\* the first '>' after it, 0 when there is none (no match at i).
TagEnd(s, i) ==
    IF \E j \in (i + 1) .. Len(s) : s[j] = ">"
    THEN CHOOSE j \in (i + 1) .. Len(s) :
            /\ s[j] = ">"
            /\ \A k \in (i + 1) .. (j - 1) : s[k] # ">"
    ELSE 0

RECURSIVE StripFrom(_, _)
StripFrom(s, i) ==
    IF i > Len(s) THEN <<>>
    ELSE IF s[i] = "<" /\ TagEnd(s, i) # 0 THEN StripFrom(s, TagEnd(s, i) + 1)
    ELSE <<s[i]>> \o StripFrom(s, i + 1)

\* html.replace(/<[^>]*>/g, '')
stripHtmlTags(html) == StripFrom(html, 1)

\* ------------------------------------------------- createTransporter
\* Mutant: the cache is never reused.
CacheValid_Never(t) == FALSE

\* Mutant: a transport of age exactly TTL is still reused.
CacheValid_Inclusive(t) ==
    cachedTransporter # NoTransporter /\ t - transporterCreatedAt <= TRANSPORTER_TTL

\* cachedTransporter && now - transporterCreatedAt < TRANSPORTER_TTL
CacheValid(t) ==
    cachedTransporter # NoTransporter /\ t - transporterCreatedAt < TRANSPORTER_TTL

\* Mutant: every construction waits for a test account first, so that the cache check
\* and the cache write of the production path are separated by a suspension.
UseTestAccount_Always(e) == TRUE

\* Mutant: the placeholder values are taken for credentials.
UseTestAccount_NoPlaceholder(e) == ~Truthy(e.EMAIL_USER) \/ ~Truthy(e.EMAIL_PASSWORD)

\* !user || !password || user === "YOUR_EMAIL_HERE" || password === "YOUR_APP_PASSWORD_HERE"
UseTestAccount(e) ==
    \/ ~Truthy(e.EMAIL_USER)
    \/ ~Truthy(e.EMAIL_PASSWORD)
    \/ e.EMAIL_USER = PLACEHOLDER_USER
    \/ e.EMAIL_PASSWORD = PLACEHOLDER_PASSWORD

\* The options of lines 29-37.
TestTransportOptions(account) ==
    [host |-> Str("smtp.ethereal.email"), port |-> 587, secure |-> FALSE,
     auth |-> [user |-> account.user, pass |-> account.pass]]

\* The options of lines 48-60.
ProdTransportOptions(e) ==
    [host |-> OrElse(e.EMAIL_HOST, Str("smtp.gmail.com")),
     port |-> ParseInt(OrElse(e.EMAIL_PORT, Str(<<"5", "8", "7">>))[2]),
     secure |-> (e.EMAIL_SECURE = Str("true")),
     auth |-> [user |-> e.EMAIL_USER, pass |-> e.EMAIL_PASSWORD],
     pool |-> TRUE, maxConnections |-> 5, maxMessages |-> 100,
     connectionTimeout |-> 10000, socketTimeout |-> 20000]

\* Mutant: after the wait the cache is checked again and a handle that another
\* acquisition stored in the meantime is returned instead of building one.
BuildTransport_FirstWins(c, rec, options, t) ==
    IF CacheValid(now)
    THEN /\ calls' = [calls EXCEPT ![c] =
                [rec EXCEPT !.pc = "awaitTransporter",
                            !.transporter = Fulfilled(cachedTransporter)]]
         /\ UNCHANGED <<transports, cachedTransporter, transporterCreatedAt, io>>
    ELSE /\ io' = [io EXCEPT !.createTransport = @ + 1]
         /\ transports' = Append(transports, [options |-> options, createdAt |-> t])
         /\ cachedTransporter' = Len(transports) + 1
         /\ transporterCreatedAt' = t
         /\ calls' = [calls EXCEPT ![c] =
               [rec EXCEPT !.pc = "awaitTransporter",
                           !.transporter = Fulfilled(Len(transports) + 1)]]

\* Mutant: the timestamp is read when the transport is stored, not when the
\* acquisition began.
BuildTransport_StampsCompletion(c, rec, options, t) ==
    /\ io' = [io EXCEPT !.createTransport = @ + 1]
    /\ \/ /\ transports' = Append(transports, [options |-> options, createdAt |-> now])
          /\ cachedTransporter' = Len(transports) + 1
          /\ transporterCreatedAt' = now
          /\ calls' = [calls EXCEPT ![c] =
                [rec EXCEPT !.pc = "awaitTransporter",
                            !.transporter = Fulfilled(Len(transports) + 1)]]
       \/ \E e \in ConstructErrors :
            /\ calls' = [calls EXCEPT ![c] =
                  [rec EXCEPT !.pc = "awaitTransporter", !.transporter = Rejected(e)]]
            /\ UNCHANGED <<transports, cachedTransporter, transporterCreatedAt>>

\* cachedTransporter = nodemailer.createTransport(options); transporterCreatedAt = t;
\* return cachedTransporter -- or createTransport throws and nothing is assigned.
\* rec is the activation that awaits the outcome next.
BuildTransport(c, rec, options, t) ==
    /\ io' = [io EXCEPT !.createTransport = @ + 1]
    /\ \/ /\ transports' = Append(transports, [options |-> options, createdAt |-> t])
          /\ cachedTransporter' = Len(transports) + 1
          /\ transporterCreatedAt' = t
          /\ calls' = [calls EXCEPT ![c] =
                [rec EXCEPT !.pc = "awaitTransporter",
                            !.transporter = Fulfilled(Len(transports) + 1)]]
       \/ \E e \in ConstructErrors :
            /\ calls' = [calls EXCEPT ![c] =
                  [rec EXCEPT !.pc = "awaitTransporter", !.transporter = Rejected(e)]]
            /\ UNCHANGED <<transports, cachedTransporter, transporterCreatedAt>>

\* The synchronous part of createTransporter(), called from sendEmail's try block.
createTransporter(c, rec) ==
    IF CacheValid(now)
    THEN /\ calls' = [calls EXCEPT ![c] =
                [rec EXCEPT !.pc = "awaitTransporter", !.now = now,
                            !.transporter = Fulfilled(cachedTransporter)]]
         /\ UNCHANGED <<transports, cachedTransporter, transporterCreatedAt, io>>
    ELSE IF UseTestAccount(env)
    THEN /\ io' = [io EXCEPT !.createTestAccount = @ + 1]
         /\ calls' = [calls EXCEPT ![c] = [rec EXCEPT !.pc = "awaitTestAccount", !.now = now]]
         /\ UNCHANGED <<transports, cachedTransporter, transporterCreatedAt>>
    ELSE BuildTransport(c, [rec EXCEPT !.now = now], ProdTransportOptions(env), now)

\* ----------------------------------------------------------- sendEmail
\* Mutant: the validation forgets html.
MissingEmailParams_NoHtml(a) == ~Truthy(a.to) \/ ~Truthy(a.subject)

\* !to || !subject || !html
MissingEmailParams(a) == ~Truthy(a.to) \/ ~Truthy(a.subject) \/ ~Truthy(a.html)

MissingEmailResult ==
    [success |-> FALSE, error |-> "Missing required email parameters (to, subject, or html)"]

\* Mutant: the identifier is read from a property the transport does not set.
SuccessResult_NoId(info) == [success |-> TRUE, messageId |-> <<>>]

\* return { success: true, messageId: info.messageId }
SuccessResult(info) == [success |-> TRUE, messageId |-> info.messageId]

\* Mutant: the catch block reports the message only.
FailureResult_NoCode(error) == [success |-> FALSE, error |-> error.message, code |-> NoCode]

\* The catch block: return { success: false, error: error.message, code: error.code }
FailureResult(error) == [success |-> FALSE, error |-> error.message, code |-> error.code]

\* Mutant: the exception is raised outside the try block and rejects the promise
\* sendEmail returned.
Caught_Escapes(rec, error) == [rec EXCEPT !.pc = "rejected"]

\* Mutant: after a failed or timed-out delivery the catch block sends again with the
\* transport it has.
Caught_Retry(rec, error) ==
    IF rec.emailPromise.state = "none"
    THEN [rec EXCEPT !.pc = "done", !.result = FailureResult(error)]
    ELSE [rec EXCEPT !.pc = "awaitTransporter"]

\* An exception raised inside sendEmail's try block ends the activation in the
\* catch block, which returns the failure result.
Caught(rec, error) == [rec EXCEPT !.pc = "done", !.result = FailureResult(error)]

\* The object handed to transporter.sendMail (lines 95-107).
MailOptions(a) ==
    [from |-> env.EMAIL_USER, to |-> a.to, subject |-> a.subject, html |-> a.html,
     text |-> IF Truthy(a.text) THEN a.text ELSE Str(stripHtmlTags(a.html[2])),
     priority |-> "high",
     headers |-> [XPriority |-> "1", XMSMailPriority |-> "High", Importance |-> "high"]]

\* Some other call is between its entry and its return.
InFlight(c) == \E d \in CallIds \ {c} : calls[d].pc \notin {"idle", "done", "rejected"}

\* Calls are issued in the order of their ids.
Issuable(c) == calls[c].pc = "idle" /\ \A d \in CallIds : d < c => calls[d].pc # "idle"

\* sendEmail({to, subject, html, text}) up to its first await. api and input are
\* what the caller invoked; a are sendEmail's parameters.
sendEmail(c, api, input, a) ==
    LET rec == [IdleCall EXCEPT !.api = api, !.input = input, !.args = a] IN
    IF MissingEmailParams(a)
    THEN /\ calls' = [calls EXCEPT ![c] =
                [rec EXCEPT !.pc = "done", !.result = MissingEmailResult]]
         /\ UNCHANGED <<transports, cachedTransporter, transporterCreatedAt, io>>
    ELSE createTransporter(c, rec)

CallSendEmail(c) ==
    /\ Issuable(c)
    /\ \E a \in SendEmailInputs : sendEmail(c, "sendEmail", a, a)
    /\ overlap' = (overlap \/ InFlight(c))
    /\ UNCHANGED <<env, now, ticks>>
    /\ UNCHANGED carouselVars

\* ------------------------------------------- sendWorkshopConfirmation
\* Mutant: name, which the message never uses, is not required.
MissingWorkshopParams_NoName(w) ==
    ~Truthy(w.email) \/ ~Truthy(w.subject) \/ ~Truthy(w.template)

\* !email || !name || !subject || !template
MissingWorkshopParams(w) ==
    ~Truthy(w.email) \/ ~Truthy(w.name) \/ ~Truthy(w.subject) \/ ~Truthy(w.template)

MissingWorkshopResult ==
    [success |-> FALSE, error |-> "Missing required parameters for workshop confirmation email"]

\* sendEmail({ to: email, subject, html: template })
WorkshopEmailParams(w) ==
    [to |-> w.email, subject |-> w.subject, html |-> w.template, text |-> Undefined]

CallSendWorkshopConfirmation(c) ==
    /\ Issuable(c)
    /\ \E w \in WorkshopInputs :
          IF MissingWorkshopParams(w)
          THEN /\ calls' = [calls EXCEPT ![c] =
                      [IdleCall EXCEPT !.pc = "done", !.api = "sendWorkshopConfirmation",
                                       !.input = w, !.result = MissingWorkshopResult]]
               /\ UNCHANGED <<transports, cachedTransporter, transporterCreatedAt, io>>
          ELSE sendEmail(c, "sendWorkshopConfirmation", w, WorkshopEmailParams(w))
    /\ overlap' = (overlap \/ InFlight(c))
    /\ UNCHANGED <<env, now, ticks>>
    /\ UNCHANGED carouselVars

\* ------------------------------------------------------ continuations
\* Mutant: the catch block of createTransporter logs the error and falls through to
\* whatever is cached instead of rethrowing.
ProvisionFailed_FallsBack(rec, e) ==
    [rec EXCEPT !.pc = "awaitTransporter", !.transporter = Fulfilled(cachedTransporter)]

\* catch (error) { console.error(...); throw error; } (lines 41-44): the promise of
\* createTransporter rejects with the provisioning error.
ProvisionFailed(rec, e) ==
    [rec EXCEPT !.pc = "awaitTransporter", !.transporter = Rejected(e)]

\* nodemailer.createTestAccount() settles: createTransporter resumes after its
\* await (lines 28-44), builds and caches the transport, or rethrows.
TestAccountSettled(c) ==
    /\ calls[c].pc = "awaitTestAccount"
    /\ \/ BuildTransport(c, calls[c], TestTransportOptions(TestAccount), calls[c].now)
       \/ \E e \in ProvisionErrors :
            /\ calls' = [calls EXCEPT ![c] = ProvisionFailed(@, e)]
            /\ UNCHANGED <<transports, cachedTransporter, transporterCreatedAt, io>>
    /\ UNCHANGED <<env, now, ticks, overlap>>
    /\ UNCHANGED carouselVars

\* sendEmail resumes after `await createTransporter()` (lines 93-116): a rejection
\* goes to the catch block; otherwise the mail is handed to sendMail, the timer
\* is armed and the activation awaits the race.
TransporterSettled(c) ==
    /\ calls[c].pc = "awaitTransporter"
    /\ IF calls[c].transporter.state = "rejected"
       THEN /\ calls' = [calls EXCEPT ![c] = Caught(@, calls[c].transporter.reason)]
            /\ io' = io
       ELSE /\ calls' = [calls EXCEPT ![c] =
                  [@ EXCEPT !.pc = "awaitRace",
                            !.mailOptions = MailOptions(calls[c].args),
                            !.emailPromise = [state |-> "pending", delivery |-> io.sendMail + 1],
                            !.timer = [state |-> "pending", due |-> now + EMAIL_TIMEOUT]]]
            /\ io' = [io EXCEPT !.sendMail = @ + 1, !.setTimeout = @ + 1]
    /\ UNCHANGED <<env, now, ticks, transports, cachedTransporter, transporterCreatedAt, overlap>>
    /\ UNCHANGED carouselVars

\* Mutant: the result is taken from whichever task settles last.
RacePending_LastWins(rec) == rec.pc \in {"awaitRace", "done"}

\* Mutant: the timer decides the result for as long as it has not fired.
RacePending_UntilTimer(rec) == rec.timer.state = "pending"

\* Promise.race is still pending: the activation awaits it.
RacePending(rec) == rec.pc = "awaitRace"

\* transporter.sendMail settles. If the race is still pending it settles the same
\* way and sendEmail returns (lines 116-128); otherwise nothing else happens.
DeliverySettled(c) ==
    /\ calls[c].emailPromise.state = "pending"
    /\ \/ LET info == [messageId |-> MessageIdOf(calls[c].emailPromise.delivery)] IN
          calls' = [calls EXCEPT ![c] =
             IF RacePending(@)
             THEN [@ EXCEPT !.emailPromise = Fulfilled(info), !.pc = "done",
                            !.result = SuccessResult(info)]
             ELSE [@ EXCEPT !.emailPromise = Fulfilled(info)]]
       \/ \E e \in DeliveryErrors :
          calls' = [calls EXCEPT ![c] =
             IF RacePending(@)
             THEN Caught([@ EXCEPT !.emailPromise = Rejected(e)], e)
             ELSE [@ EXCEPT !.emailPromise = Rejected(e)]]
    /\ UNCHANGED <<env, now, ticks, transports, cachedTransporter, transporterCreatedAt, io, overlap>>
    /\ UNCHANGED carouselVars

TimeoutError == Err("Email sending timed out", NoCode)

\* The setTimeout callback runs, EMAIL_TIMEOUT or more after it was armed, and
\* rejects timeoutPromise; a pending race rejects with it.
TimerFired(c) ==
    /\ calls[c].timer.state = "pending"
    /\ now >= calls[c].timer.due
    /\ calls' = [calls EXCEPT ![c] =
          IF RacePending(@)
          THEN Caught([@ EXCEPT !.timer.state = "fired"], TimeoutError)
          ELSE [@ EXCEPT !.timer.state = "fired"]]
    /\ UNCHANGED <<env, now, ticks, transports, cachedTransporter, transporterCreatedAt, io, overlap>>
    /\ UNCHANGED carouselVars

\* Time passes.
Tick ==
    /\ ticks < MaxTicks
    /\ \E d \in TickSteps : now' = now + d
    /\ ticks' = ticks + 1
    /\ UNCHANGED <<env, transports, cachedTransporter, transporterCreatedAt, io, calls, overlap>>
    /\ UNCHANGED carouselVars

Next ==
    \/ \E c \in CallIds : CallSendEmail(c)
    \/ \E c \in CallIds : CallSendWorkshopConfirmation(c)
    \/ \E c \in CallIds : TestAccountSettled(c)
    \/ \E c \in CallIds : TransporterSettled(c)
    \/ \E c \in CallIds : DeliverySettled(c)
    \/ \E c \in CallIds : TimerFired(c)
    \/ Tick

Spec == Init /\ [][Next]_vars

\* A process that serves a single call, in every configuration.
NoneIssued == \A d \in CallIds : calls[d].pc = "idle"

NextConfig ==
    \/ \E c \in CallIds : NoneIssued /\ CallSendEmail(c)
    \/ \E c \in CallIds : NoneIssued /\ CallSendWorkshopConfirmation(c)
    \/ \E c \in CallIds : TestAccountSettled(c)
    \/ \E c \in CallIds : TransporterSettled(c)
    \/ \E c \in CallIds : DeliverySettled(c)
    \/ \E c \in CallIds : TimerFired(c)
    \/ Tick

ConfigSpec == InitConfig /\ [][NextConfig]_vars

\* A process that serves a single sendEmail call, over every body in BodyInputs.
CallSendEmailBody(c) ==
    /\ NoneIssued
    /\ Issuable(c)
    /\ \E a \in BodyInputs : sendEmail(c, "sendEmail", a, a)
    /\ overlap' = (overlap \/ InFlight(c))
    /\ UNCHANGED <<env, now, ticks>>
    /\ UNCHANGED carouselVars

NextBody ==
    \/ \E c \in CallIds : CallSendEmailBody(c)
    \/ \E c \in CallIds : TestAccountSettled(c)
    \/ \E c \in CallIds : TransporterSettled(c)
    \/ \E c \in CallIds : DeliverySettled(c)

BodySpec == Init /\ [][NextBody]_vars

\* =================================================================
\* LogoCarousel
\* =================================================================
cycleInterval == 2000
\* columnDelay = index * 200
ColumnDelayStep == 200
\* setInterval(updateTime, 100); setCurrentTime(prev => prev + 100)
FrameMs == 100

\* The logo lists handed to the component: logos are told apart by their id.
LogoLists == {[i \in 1 .. n |-> i] : n \in 0 .. MaxLogos}
ColumnCounts == 1 .. MaxColumns

Swap(a, i, j) == [a EXCEPT ![i] = a[j], ![j] = a[i]]

\* The loop of shuffleArray from position i (1-based) downwards, over every value
\* Math.floor(Math.random() * (i + 1)) can take.
RECURSIVE ShuffleFrom(_, _)
ShuffleFrom(arrays, i) ==
    IF i <= 1 THEN arrays
    ELSE ShuffleFrom({Swap(a, i, j) : a \in arrays, j \in 1 .. i}, i - 1)

\* Mutant: the swaps are made in the array that was passed in.
shuffleArray_InPlace(array) ==
    {[array |-> sh, shuffled |-> sh] : sh \in ShuffleFrom({array}, Len(array))}

\* shuffleArray: the outcomes, each with the argument array as the call leaves it and
\* the array returned; the swaps are made in the copy [...array].
shuffleArray(array) ==
    {[array |-> array, shuffled |-> sh] : sh \in ShuffleFrom({array}, Len(array))}

\* columns[index % columnCount].push(logo) over shuffled: column k (1-based) receives
\* the items at the 0-based indices k - 1, k - 1 + count, ...
Deal(shuffled, count) ==
    [k \in 1 .. count |->
        [m \in 1 .. Cardinality({i \in 1 .. Len(shuffled) : (i - 1) % count = k - 1}) |->
            shuffled[(m - 1) * count + k]]]

RECURSIVE MaxOf(_)
MaxOf(S) ==
    LET x == CHOOSE y \in S : TRUE IN
    IF S = {x} THEN x
    ELSE LET m == MaxOf(S \ {x}) IN IF x > m THEN x ELSE m

Items(a) == {a[i] : i \in 1 .. Len(a)}

\* columns.forEach(col => { while (col.length < maxLength) col.push(random item) }),
\* from column k on, over every outcome of the random picks.
RECURSIVE PadFrom(_, _, _, _)
PadFrom(columns, k, shuffled, maxLength) ==
    IF k > Len(columns) THEN {columns}
    ELSE UNION {PadFrom([columns EXCEPT ![k] = columns[k] \o p], k + 1, shuffled, maxLength) :
                   p \in [1 .. (maxLength - Len(columns[k])) -> Items(shuffled)]}

\* distributeLogos(allLogos, columnCount): the outcomes, each with the argument array
\* as the call leaves it and the columns returned.
distributeLogos(allLogos, count) ==
    UNION {LET columns == Deal(sh.shuffled, count)
               maxLength == MaxOf({Len(columns[k]) : k \in 1 .. count}) IN
           {[allLogos |-> sh.array, columns |-> cols] :
               cols \in PadFrom(columns, 1, sh.shuffled, maxLength)} :
           sh \in shuffleArray(allLogos)}

\* a % b of JavaScript for a >= 0: NaN when b is 0 or a is NaN.
JsMod(a, b) == IF a = NaN \/ b = 0 THEN NaN ELSE a % b

\* Math.floor(a / b) for a >= 0 and b > 0: NaN when a is NaN.
FloorDiv(a, b) == IF a = NaN THEN NaN ELSE a \div b

\* LogoColumn (lines 33-37): the index the column with 0-based position index selects
\* among its length logos at time t.
CurrentIndex(length, index, t) ==
    LET columnDelay == index * ColumnDelayStep
        adjustedTime == JsMod(t + columnDelay, cycleInterval * length) IN
    FloorDiv(adjustedTime, cycleInterval)

\* logoSets.map((logos, index) => <LogoColumn ... />)
Render(sets, t) == [k \in 1 .. Len(sets) |-> CurrentIndex(Len(sets[k]), k - 1, t)]

\* logos[currentIndex].img throws a TypeError when logos[currentIndex] is undefined.
RenderThrows(sets, t) ==
    \E k \in 1 .. Len(sets) : Render(sets, t)[k] \notin 0 .. (Len(sets[k]) - 1)

\* A render of LogoCarousel with the given state; an error thrown by a LogoColumn
\* unmounts the tree.
Rendered(sets, t, ok) ==
    /\ currentIndex' = Render(sets, t)
    /\ phase' = IF RenderThrows(sets, t) THEN "crashed" ELSE ok

\* The first render: useState([]) and useState(0), no column is rendered yet.
CarouselInit ==
    /\ EmailInit(EnvMain)
    /\ phase = "rendered"
    /\ logos \in LogoLists
    /\ columnCount \in ColumnCounts
    /\ logoSets = <<>>
    /\ currentTime = 0
    /\ currentIndex = <<>>

\* The effects after a render in which logos or columnCount are new (lines 95-103):
\* the interval is running and setLogoSets(distributeLogos(logos, columnCount))
\* renders the columns.
DistributeEffect ==
    /\ phase = "rendered"
    /\ \E d \in distributeLogos(logos, columnCount) :
          /\ logos' = d.allLogos
          /\ logoSets' = d.columns
          /\ Rendered(d.columns, currentTime, "running")
    /\ UNCHANGED <<columnCount, currentTime>>
    /\ UNCHANGED emailVars

\* The interval callback: setCurrentTime(prev => prev + 100), and the render it causes.
updateTime ==
    /\ phase = "running"
    /\ currentTime < MaxFrames * FrameMs
    /\ currentTime' = currentTime + FrameMs
    /\ Rendered(logoSets, currentTime + FrameMs, "running")
    /\ UNCHANGED <<logos, columnCount, logoSets>>
    /\ UNCHANGED emailVars

\* The parent renders the component with other props; the effect of lines 100-103
\* is pending after that render.
PropsChanged ==
    /\ phase = "running"
    /\ \E l \in LogoLists, n \in ColumnCounts :
          /\ <<l, n>> # <<logos, columnCount>>
          /\ logos' = l
          /\ columnCount' = n
    /\ Rendered(logoSets, currentTime, "rendered")
    /\ UNCHANGED <<logoSets, currentTime>>
    /\ UNCHANGED emailVars

CarouselNext ==
    \/ DistributeEffect
    \/ updateTime
    \/ PropsChanged

CarouselSpec == CarouselInit /\ [][CarouselNext]_vars

\* =================================================================
\* Properties
\* =================================================================
\* Call c is entered in this step.
Enters(c) == calls[c].pc = "idle" /\ calls'[c].pc # "idle"

CacheUntouched == UNCHANGED <<cachedTransporter, transporterCreatedAt, transports>>

\* C1: a sendEmail call with to, subject or html missing or empty returns
\* {success:false, error:'Missing required email parameters (to, subject, or html)'};
\* in that call no transport is acquired or built, no test account is provisioned,
\* no delivery is initiated, no timer is started, and the cache entry is unchanged.
C1_InvalidSendEmailDoesNothing ==
    [][\A c \in CallIds :
        (/\ Enters(c)
         /\ calls'[c].api = "sendEmail"
         /\ \/ ~Truthy(calls'[c].input.to)
            \/ ~Truthy(calls'[c].input.subject)
            \/ ~Truthy(calls'[c].input.html))
        => /\ calls'[c].pc = "done"
           /\ calls'[c].result =
                [success |-> FALSE,
                 error |-> "Missing required email parameters (to, subject, or html)"]
           /\ calls'[c].transporter = NoPromise
           /\ calls'[c].emailPromise = NoPromise
           /\ calls'[c].timer = NoTimer
           /\ io' = io
           /\ CacheUntouched]_vars

\* A sendEmail call that lacks only html has returned while a transport is cached.
C1_Witness ==
    \E c \in CallIds :
        /\ calls[c].api = "sendEmail" /\ calls[c].pc = "done"
        /\ Truthy(calls[c].input.to) /\ Truthy(calls[c].input.subject)
        /\ ~Truthy(calls[c].input.html)
        /\ cachedTransporter # NoTransporter

\* The two shapes of a send result.
StructuredResult(r) ==
    \/ /\ DOMAIN r = {"success", "messageId"}
       /\ r.success = TRUE
    \/ /\ "success" \in DOMAIN r /\ "error" \in DOMAIN r
       /\ DOMAIN r \subseteq {"success", "error", "code"}
       /\ r.success = FALSE

\* C2: sendEmail and sendWorkshopConfirmation never reject: whatever provisioning,
\* construction, delivery and the timer do, a call that has ended has resolved to
\* {success:true, messageId} or {success:false, error, code?}.
C2_NeverRejects ==
    \A c \in CallIds :
        /\ calls[c].pc # "rejected"
        /\ calls[c].pc = "done" => StructuredResult(calls[c].result)
        /\ calls[c].pc # "done" => calls[c].result = NoResult

\* Calls have ended after a failed provisioning or construction, after a failed
\* delivery and after a timeout.
C2_Witness ==
    /\ \E c \in CallIds :
          calls[c].pc = "done" /\ calls[c].transporter.state = "rejected"
    /\ \E c \in CallIds :
          calls[c].pc = "done" /\ calls[c].emailPromise.state \in {"rejected", "pending"}
             /\ calls[c].timer.state \in {"pending", "fired"}

TimeoutResult == [success |-> FALSE, error |-> "Email sending timed out", code |-> NoCode]

\* C3: the timer is armed for 30 s when delivery is initiated; if it fires before the
\* delivery has settled the call returns {success:false, error:'Email sending timed
\* out'}, and that result stays whatever the delivery does later.
C3_TimeoutWins ==
    [][\A c \in CallIds :
        /\ (calls[c].emailPromise.state = "none" /\ calls'[c].emailPromise.state = "pending")
              => calls'[c].timer = [state |-> "pending", due |-> now + 30000]
        /\ (calls[c].timer.state = "pending" /\ calls'[c].timer.state = "fired")
              => /\ now >= calls[c].timer.due
                 /\ (calls[c].emailPromise.state = "pending" /\ calls[c].pc = "awaitRace")
                       => calls'[c].pc = "done" /\ calls'[c].result = TimeoutResult
        /\ (calls[c].pc = "done" /\ calls[c].result = TimeoutResult)
              => calls'[c].pc = "done" /\ calls'[c].result = TimeoutResult]_vars

\* A call that timed out whose delivery succeeded afterwards.
C3_Witness ==
    \E c \in CallIds :
        /\ calls[c].pc = "done" /\ calls[c].result = TimeoutResult
        /\ calls[c].emailPromise.state = "fulfilled"

\* Call c is entered in this step and acquires a transport (its parameters are valid).
Acquires(c) == Enters(c) /\ calls'[c].pc # "done"

\* The step builds transport number Len(transports) + 1 for call c.
Builds(c) ==
    /\ Len(transports') = Len(transports) + 1
    /\ calls'[c].transporter = Fulfilled(Len(transports'))
    /\ calls[c].transporter = NoPromise

\* C4: while a cached transport is younger than 30 minutes every acquisition returns
\* that handle, provisions and builds nothing and leaves handle and timestamp as they
\* are; hence, when calls are issued one after the other, the transports built are at
\* least one TTL apart.
C4_FreshCacheIsReused ==
    /\ [](~overlap =>
            \A k, l \in DOMAIN transports :
                k < l => transports[l].createdAt - transports[k].createdAt >= 1800000)
    /\ [][\A c \in CallIds :
            (/\ Acquires(c)
             /\ cachedTransporter # NoTransporter
             /\ now - transporterCreatedAt < 1800000)
            => /\ calls'[c].pc = "awaitTransporter"
               /\ calls'[c].transporter = Fulfilled(cachedTransporter)
               /\ io' = io
               /\ CacheUntouched]_vars

\* Two calls issued one after the other got the same handle, the second when the
\* handle was one millisecond short of the TTL.
C4_Witness ==
    /\ ~overlap
    /\ \E c, d \in CallIds :
          /\ c < d
          /\ calls[c].transporter.state = "fulfilled"
          /\ calls[d].transporter = calls[c].transporter
          /\ calls[d].now - transports[calls[c].transporter.value].createdAt = 1800000 - 1
          /\ Len(transports) = 1

\* C5: a cached handle whose age is 30 minutes or more (exactly 30 minutes included)
\* is never returned: the call takes the construction path, and when the construction
\* succeeds the cache holds the new handle with the `now` of that call as timestamp.
C5_StaleCacheIsRebuilt ==
    [][\A c \in CallIds :
        /\ (/\ Acquires(c)
            /\ cachedTransporter # NoTransporter
            /\ now - transporterCreatedAt >= 1800000)
           => /\ calls'[c].transporter # Fulfilled(cachedTransporter)
              /\ calls'[c].now = now
              /\ \/ calls'[c].pc = "awaitTestAccount"
                      /\ io'.createTestAccount = io.createTestAccount + 1
                 \/ io'.createTransport = io.createTransport + 1
        /\ (Acquires(c) /\ calls'[c].transporter.state = "fulfilled" /\ transports' = transports)
           => /\ cachedTransporter # NoTransporter
              /\ now - transporterCreatedAt < 1800000
              /\ calls'[c].transporter.value = cachedTransporter
        /\ Builds(c)
           => /\ cachedTransporter' = Len(transports')
              /\ transporterCreatedAt' = calls'[c].now
              /\ transports'[Len(transports')].createdAt = calls'[c].now]_vars

\* The cached transport was rebuilt by a call issued exactly one TTL after the first
\* transport was built.
C5_Witness ==
    /\ Len(transports) = 2
    /\ transports[2].createdAt - transports[1].createdAt = 1800000
    /\ cachedTransporter = 2
    /\ transporterCreatedAt = transports[2].createdAt

\* The credentials the claim calls unusable.
TestModeEnv(e) ==
    \/ e.EMAIL_USER \in {Undefined, Str("")}
    \/ e.EMAIL_PASSWORD \in {Undefined, Str("")}
    \/ e.EMAIL_USER = Str("YOUR_EMAIL_HERE")
    \/ e.EMAIL_PASSWORD = Str("YOUR_APP_PASSWORD_HERE")

\* C6: on a cache miss a test account is provisioned exactly when EMAIL_USER or
\* EMAIL_PASSWORD is absent, empty or the placeholder; otherwise no account is
\* provisioned and the transport is built with the configured credentials, host
\* (default smtp.gmail.com), port (default 587) and secure only for EMAIL_SECURE 'true'.
C6_ModeSelection ==
    [][\A c \in CallIds :
        (Acquires(c) /\ ~(cachedTransporter # NoTransporter /\ now - transporterCreatedAt < TRANSPORTER_TTL))
        => IF TestModeEnv(env)
           THEN /\ calls'[c].pc = "awaitTestAccount"
                /\ io'.createTestAccount = io.createTestAccount + 1
                /\ io'.createTransport = io.createTransport
                /\ transports' = transports
           ELSE /\ calls'[c].pc = "awaitTransporter"
                /\ io'.createTestAccount = io.createTestAccount
                /\ io'.createTransport = io.createTransport + 1
                /\ Builds(c) =>
                     LET o == transports'[Len(transports')].options IN
                     /\ o.auth = [user |-> env.EMAIL_USER, pass |-> env.EMAIL_PASSWORD]
                     /\ o.host = IF env.EMAIL_HOST \in {Undefined, Str("")}
                                 THEN Str("smtp.gmail.com") ELSE env.EMAIL_HOST
                     /\ o.port = IF env.EMAIL_PORT = Undefined THEN 587 ELSE 465
                     /\ o.secure = (env.EMAIL_SECURE = Str("true"))]_vars

\* With a real user and the placeholder password a test account was requested.
C6_Witness ==
    /\ env.EMAIL_USER = RealUser
    /\ env.EMAIL_PASSWORD = Str("YOUR_APP_PASSWORD_HERE")
    /\ io.createTestAccount = 1

\* C7: a call with to, subject and html present whose transport was acquired and
\* whose delivery succeeds before the timer has fired returns {success:true,
\* messageId} with the non-empty identifier the transport reported for that delivery.
C7_SuccessCarriesMessageId ==
    [][\A c \in CallIds :
        (/\ calls[c].emailPromise.state = "pending"
         /\ calls[c].timer.state = "pending"
         /\ calls'[c].emailPromise.state = "fulfilled")
        => /\ Truthy(calls[c].args.to) /\ Truthy(calls[c].args.subject)
           /\ Truthy(calls[c].args.html)
           /\ calls[c].transporter.state = "fulfilled"
           /\ calls'[c].pc = "done"
           /\ calls'[c].result =
                [success |-> TRUE, messageId |-> MessageIdOf(calls[c].emailPromise.delivery)]
           /\ calls'[c].result.messageId = calls'[c].emailPromise.value.messageId
           /\ calls'[c].result.messageId # <<>>]_vars

\* The second delivery of the process succeeded in time and its call returned its id.
C7_Witness ==
    \E c \in CallIds :
        /\ calls[c].pc = "done"
        /\ calls[c].result = [success |-> TRUE, messageId |-> MessageIdOf(2)]

\* What sendEmail returns for the outcomes of activation c.
SendEmailOutcomes(c) ==
    LET r == calls[c] IN
    IF r.transporter.state = "rejected"
    THEN {[success |-> FALSE, error |-> r.transporter.reason.message,
           code |-> r.transporter.reason.code]}
    ELSE {TimeoutResult}
         \cup (IF r.emailPromise.state = "fulfilled"
               THEN {[success |-> TRUE, messageId |-> r.emailPromise.value.messageId]}
               ELSE {})
         \cup (IF r.emailPromise.state = "rejected"
               THEN {[success |-> FALSE, error |-> r.emailPromise.reason.message,
                      code |-> r.emailPromise.reason.code]}
               ELSE {})

\* C8: sendWorkshopConfirmation with email, name, subject or template missing or empty
\* returns {success:false, error} without invoking sendEmail, acquiring a transport or
\* changing the cache; with all four present it invokes sendEmail once, with to=email,
\* subject=subject, html=template and no text, and returns sendEmail's result.
C8_WorkshopDelegates ==
    /\ [](\A c \in CallIds :
            (calls[c].api = "sendWorkshopConfirmation" /\ calls[c].pc = "done"
                /\ calls[c].args # NoInput)
            => calls[c].result \in SendEmailOutcomes(c))
    /\ [][\A c \in CallIds :
            /\ (Enters(c) /\ calls'[c].api = "sendWorkshopConfirmation")
               => LET w == calls'[c].input IN
                  IF ~Truthy(w.email) \/ ~Truthy(w.name) \/ ~Truthy(w.subject)
                        \/ ~Truthy(w.template)
                  THEN /\ calls'[c].pc = "done"
                       /\ DOMAIN calls'[c].result = {"success", "error"}
                       /\ calls'[c].result.success = FALSE
                       /\ calls'[c].args = NoInput
                       /\ calls'[c].transporter = NoPromise
                       /\ calls'[c].emailPromise = NoPromise
                       /\ io' = io
                       /\ CacheUntouched
                  ELSE /\ calls'[c].pc # "done"
                       /\ calls'[c].args =
                            [to |-> w.email, subject |-> w.subject, html |-> w.template,
                             text |-> Undefined]
            /\ calls[c].pc # "idle"
               => calls'[c].args = calls[c].args /\ calls'[c].input = calls[c].input]_vars

\* One confirmation lacked only the name and was refused; another was delivered.
C8_Witness ==
    \E c, d \in CallIds :
        /\ calls[c].api = "sendWorkshopConfirmation" /\ calls[c].pc = "done"
        /\ ~Truthy(calls[c].input.name)
        /\ Truthy(calls[c].input.email) /\ Truthy(calls[c].input.subject)
        /\ Truthy(calls[c].input.template)
        /\ calls[d].api = "sendWorkshopConfirmation" /\ calls[d].pc = "done"
        /\ calls[d].result.success = TRUE

\* C9: every sendEmail call returns: whenever a call is suspended on an operation of
\* the environment (provisioning, delivery), the 30 s timer that bounds the call is
\* armed, so the call ends even if that operation never settles.
C9_EveryAwaitIsBounded ==
    \A c \in CallIds :
        calls[c].pc \in {"awaitTestAccount", "awaitRace"} => calls[c].timer.state = "pending"

\* C10: with several calls in flight, a delivery that settles or a timer that fires
\* touches only its own call: it changes no other call and not the cache, it does not
\* change a result its call has already returned, and a result it produces is the
\* outcome of that call's own delivery or timer.
C10_RacesAreIndependent ==
    [][\A c \in CallIds :
        (\/ calls[c].emailPromise.state = "pending" /\ calls'[c].emailPromise.state # "pending"
         \/ calls[c].timer.state = "pending" /\ calls'[c].timer.state = "fired")
        => /\ \A d \in CallIds \ {c} : calls'[d] = calls[d]
           /\ CacheUntouched
           /\ io' = io
           /\ calls[c].pc = "done"
                => calls'[c].pc = "done" /\ calls'[c].result = calls[c].result
           /\ calls[c].pc = "awaitRace"
                => /\ calls'[c].pc = "done"
                   /\ calls'[c].result =
                        IF calls'[c].timer.state = "fired" THEN TimeoutResult
                        ELSE IF calls'[c].emailPromise.state = "fulfilled"
                        THEN [success |-> TRUE,
                              messageId |-> MessageIdOf(calls[c].emailPromise.delivery)]
                        ELSE [success |-> FALSE,
                              error |-> calls'[c].emailPromise.reason.message,
                              code |-> calls'[c].emailPromise.reason.code]]_vars

\* Two overlapping calls: one timed out and its delivery succeeded afterwards, the
\* other was delivered and its timer fired afterwards.
C10_Witness ==
    /\ overlap
    /\ \E c, d \in CallIds :
          /\ calls[c].pc = "done" /\ calls[c].result = TimeoutResult
          /\ calls[c].emailPromise.state = "fulfilled"
          /\ calls[d].pc = "done" /\ calls[d].result.success = TRUE
          /\ calls[d].timer.state = "fired"

\* C11: in test mode a failed provisioning makes the acquisition fail with that error:
\* the call returns {success:false, error: <its message>} (with its code) without
\* initiating a delivery, no step of the call writes the cache, and a later call that
\* misses the cache asks for a test account again.
C11_ProvisioningFailureIsFatal ==
    [][\A c \in CallIds :
        /\ (/\ calls[c].pc = "awaitTestAccount"
            /\ calls'[c].pc # "awaitTestAccount"
            /\ io'.createTransport = io.createTransport)
           => /\ calls'[c].pc = "awaitTransporter"
              /\ calls'[c].transporter.state = "rejected"
              /\ calls'[c].transporter.reason \in ProvisionErrors
              /\ io' = io
              /\ CacheUntouched
        /\ (/\ calls[c].pc = "awaitTransporter"
            /\ calls[c].transporter.state = "rejected"
            /\ calls[c].transporter.reason \in ProvisionErrors)
           => /\ calls'[c] = calls[c]
                 \/ /\ calls'[c].pc = "done"
                    /\ calls'[c].result =
                         [success |-> FALSE,
                          error |-> calls[c].transporter.reason.message,
                          code |-> calls[c].transporter.reason.code]
                    /\ calls'[c].emailPromise = NoPromise
                    /\ calls'[c].timer = NoTimer
                    /\ io' = io
                    /\ CacheUntouched
        /\ (/\ Acquires(c)
            /\ TestModeEnv(env)
            /\ ~(cachedTransporter # NoTransporter /\ now - transporterCreatedAt < TRANSPORTER_TTL))
           => /\ calls'[c].pc = "awaitTestAccount"
              /\ io'.createTestAccount = io.createTestAccount + 1
              /\ CacheUntouched]_vars

\* The first call has returned the provisioning error, the cache is still empty and
\* the next call, issued afterwards, has asked for a test account again.
C11_Witness ==
    /\ ~overlap
    /\ cachedTransporter = NoTransporter
    /\ \E c, d \in CallIds :
          /\ c < d
          /\ calls[c].pc = "done"
          /\ calls[c].result =
                [success |-> FALSE, error |-> "getaddrinfo ENOTFOUND api.nodemailer.com",
                 code |-> "ENOTFOUND"]
          /\ calls[c].emailPromise = NoPromise
          /\ calls[d].pc = "awaitTestAccount"
          /\ io.createTestAccount = 2

\* Position i of s lies in a stretch from a '<' up to the next '>'.
InTag(s, i) ==
    \E p \in 1 .. i : \E q \in i .. Len(s) :
        /\ s[p] = "<"
        /\ s[q] = ">"
        /\ \A k \in p .. (q - 1) : s[k] # ">"

\* The characters of s from position i on that lie in no such stretch, in order.
RECURSIVE OutsideTags(_, _)
OutsideTags(s, i) ==
    IF i > Len(s) THEN <<>>
    ELSE (IF InTag(s, i) THEN <<>> ELSE <<s[i]>>) \o OutsideTags(s, i + 1)

\* C12: the text of the message is the caller's text when a non-empty text was given,
\* and otherwise the html with every stretch from a '<' up to the next '>' removed and
\* every other character kept in order; '<p>Hello <b>World</b></p>' without a text
\* gives 'Hello World'.
C12_PlainTextBody ==
    \A c \in CallIds :
        calls[c].mailOptions # NoInput
        => LET a == calls[c].args
               body == calls[c].mailOptions.text IN
           /\ calls[c].mailOptions.html = a.html
           /\ (a.text # Undefined /\ a.text # Str(<<>>)) => body = a.text
           /\ (a.text = Undefined \/ a.text = Str(<<>>))
                => body = Str(OutsideTags(a.html[2], 1))
           /\ (a.html = Str(HtmlExample) /\ a.text = Undefined)
                => body = Str(<<"H", "e", "l", "l", "o", " ", "W", "o", "r", "l", "d">>)

\* The nested document was sent without a text and the message carries 'Hello World'.
C12_Witness ==
    \E c \in CallIds :
        /\ calls[c].args # NoInput
        /\ calls[c].args.html = Str(HtmlExample)
        /\ calls[c].args.text = Undefined
        /\ calls[c].mailOptions # NoInput
        /\ calls[c].mailOptions.text =
              Str(<<"H", "e", "l", "l", "o", " ", "W", "o", "r", "l", "d">>)
        /\ calls[c].emailPromise.state # "none"

\* C14: acquisitions that overlap during a cache miss each construct a handle of their
\* own: an acquisition that comes back from provisioning with a handle has built a new
\* transport in that step, returns that new handle, which no other acquisition holds,
\* and overwrites the cache with it and with its own start time; so the cache always
\* holds the handle built last.
C14_LastWriteWins ==
    [][/\ cachedTransporter' = Len(transports')
       /\ \A c \in CallIds :
            (/\ calls[c].pc = "awaitTestAccount"
             /\ calls'[c].transporter.state = "fulfilled")
            => /\ Builds(c)
               /\ calls'[c].transporter.value = Len(transports) + 1
               /\ cachedTransporter' = Len(transports) + 1
               /\ transporterCreatedAt' = calls[c].now
               /\ \A d \in CallIds \ {c} :
                     calls'[d].transporter # Fulfilled(Len(transports) + 1)]_vars

\* Two acquisitions overlapped; the second one issued completed first with handle 1,
\* the first one completed last with handle 2, and the cache holds handle 2.
C14_Witness ==
    /\ overlap
    /\ io.createTestAccount = 2
    /\ Len(transports) = 2
    /\ cachedTransporter = 2
    /\ calls[1].transporter = Fulfilled(2)
    /\ calls[2].transporter = Fulfilled(1)

\* C15: one call acquires a transport at most once, provisions at most once and
\* initiates at most one delivery: a test account is requested only by a call that is
\* entering, a transport is constructed only for a call that has no acquisition
\* outcome yet, sendMail is called only for a call that has no delivery yet, and none
\* of these is ever undone; a call that has returned stays returned with its result.
C15_NoRetries ==
    [][/\ io'.createTestAccount - io.createTestAccount =
            Cardinality({c \in CallIds : Enters(c) /\ calls'[c].pc = "awaitTestAccount"})
       /\ io'.createTransport - io.createTransport =
            Cardinality({c \in CallIds :
                /\ calls[c].transporter = NoPromise
                /\ calls'[c].transporter # NoPromise
                /\ \/ calls'[c].transporter.state = "rejected"
                      /\ calls'[c].transporter.reason \in ConstructErrors
                   \/ Builds(c)})
       /\ io'.sendMail - io.sendMail =
            Cardinality({c \in CallIds :
                calls[c].emailPromise = NoPromise /\ calls'[c].emailPromise # NoPromise})
       /\ \A c \in CallIds :
            /\ calls[c].pc # "idle"
               => /\ calls'[c].pc # "idle"
                  /\ calls'[c].pc = "awaitTestAccount" => calls[c].pc = "awaitTestAccount"
            /\ calls[c].transporter # NoPromise
               => calls'[c].transporter = calls[c].transporter
            /\ calls[c].emailPromise # NoPromise
               => /\ calls'[c].emailPromise # NoPromise
                  /\ calls'[c].emailPromise.state = "pending"
                       => calls'[c].emailPromise = calls[c].emailPromise
            /\ calls[c].pc = "done"
               => /\ calls'[c].pc = "done"
                  /\ calls'[c].result = calls[c].result]_vars

\* A call whose delivery failed has returned the failure; its timer has fired since,
\* and still one account was provisioned, one transport built and one delivery made.
C15_Witness ==
    \E c \in CallIds :
        /\ calls[c].pc = "done"
        /\ calls[c].result = [success |-> FALSE, error |-> "Invalid login", code |-> "EAUTH"]
        /\ calls[c].emailPromise.state = "rejected"
        /\ calls[c].timer.state = "fired"
        /\ io = [createTestAccount |-> 1, createTransport |-> 1, sendMail |-> 1,
                 setTimeout |-> 1]
        /\ Len(transports) = 1

\* C16: a validated call that returns a failure reports the error that ended it: a
\* rejected acquisition gives the message and code of the provisioning (or
\* construction) error, a delivery that rejects while the race is pending gives the
\* message and code of the delivery error, and a timer that fires while the race is
\* pending gives 'Email sending timed out' and an undefined code.
C16_FailureCarriesItsError ==
    [][\A c \in CallIds :
        (/\ calls[c].pc \in {"awaitTransporter", "awaitRace"}
         /\ calls'[c].pc = "done"
         /\ calls'[c].result.success = FALSE)
        => \/ /\ calls[c].pc = "awaitTransporter"
              /\ calls[c].transporter.state = "rejected"
              /\ calls'[c].result =
                   [success |-> FALSE,
                    error |-> calls[c].transporter.reason.message,
                    code |-> calls[c].transporter.reason.code]
           \/ /\ calls[c].pc = "awaitRace"
              /\ calls[c].emailPromise.state = "pending"
              /\ calls'[c].emailPromise.state = "rejected"
              /\ calls'[c].emailPromise.reason \in DeliveryErrors
              /\ calls'[c].timer = calls[c].timer
              /\ calls'[c].result =
                   [success |-> FALSE,
                    error |-> calls'[c].emailPromise.reason.message,
                    code |-> calls'[c].emailPromise.reason.code]
           \/ /\ calls[c].pc = "awaitRace"
              /\ calls[c].timer.state = "pending"
              /\ calls'[c].timer.state = "fired"
              /\ calls'[c].emailPromise = calls[c].emailPromise
              /\ calls'[c].result =
                   [success |-> FALSE, error |-> "Email sending timed out",
                    code |-> "undefined"]]_vars

\* One call was ended by a delivery error and reports its code, another one was ended
\* by the timer and reports no code.
C16_Witness ==
    \E c, d \in CallIds :
        /\ calls[c].pc = "done"
        /\ calls[c].emailPromise.state = "rejected"
        /\ calls[c].timer.state = "pending"
        /\ calls[c].result = [success |-> FALSE, error |-> "Invalid login", code |-> "EAUTH"]
        /\ calls[d].pc = "done"
        /\ calls[d].emailPromise.state = "pending"
        /\ calls[d].timer.state = "fired"
        /\ calls[d].result =
              [success |-> FALSE, error |-> "Email sending timed out", code |-> "undefined"]

\* C17: handle and timestamp of the cache belong to one construction. An acquisition
\* reads the clock once, when it is entered; the handle changes only in a step in
\* which some acquisition builds a transport, and that step stores the new handle
\* together with the clock value that acquisition read; the timestamp never changes
\* without the handle; and the cache is empty only while no transport was ever built.
C17_CacheEntryIsOneConstruction ==
    [][/\ \A c \in CallIds :
            /\ Acquires(c) => calls'[c].now = now
            /\ calls[c].pc # "idle" => calls'[c].now = calls[c].now
       /\ cachedTransporter' # cachedTransporter
            => \E c \in CallIds :
                  /\ Builds(c)
                  /\ cachedTransporter' = Len(transports')
                  /\ transporterCreatedAt' = calls'[c].now
                  /\ transports'[cachedTransporter'].createdAt = calls'[c].now
       /\ transporterCreatedAt' # transporterCreatedAt
            => cachedTransporter' # cachedTransporter
       /\ Len(transports') # Len(transports) => cachedTransporter' # cachedTransporter
       /\ cachedTransporter' = NoTransporter
            => transports' = <<>> /\ transporterCreatedAt' = 0]_vars

\* The cached handle was built after a provisioning wait during which the clock
\* advanced and another acquisition began and completed; the cache carries the clock
\* value its own acquisition read at its start, which is the older one.
C17_Witness ==
    /\ cachedTransporter = 2
    /\ calls[1].transporter = Fulfilled(2)
    /\ calls[2].transporter = Fulfilled(1)
    /\ calls[1].now < calls[2].now
    /\ transporterCreatedAt = calls[1].now
    /\ transports[1].createdAt = calls[2].now

\* C18: with credentials configured an acquisition has its outcome in the step in
\* which it is entered (no suspension between cache check and cache write), so also
\* under overlap the transports built are at least one TTL apart, every call uses the
\* one transport built within the TTL before the call began, and calls issued within
\* the TTL after a call that built a transport all use that transport.
C18_ProductionBuildsOnce ==
    [][~TestModeEnv(env)
       => /\ \A c \in CallIds : Acquires(c) => calls'[c].transporter # NoPromise
          /\ io'.createTestAccount = 0
          /\ \A k, l \in 1 .. Len(transports') :
                k < l => transports'[l].createdAt - transports'[k].createdAt
                           >= TRANSPORTER_TTL
          /\ \A c \in CallIds :
                calls'[c].transporter.state = "fulfilled"
                => LET h == calls'[c].transporter.value IN
                   /\ h \in 1 .. Len(transports')
                   /\ transports'[h].createdAt <= calls'[c].now
                   /\ calls'[c].now - transports'[h].createdAt < TRANSPORTER_TTL
          /\ \A c, d \in CallIds :
                (/\ calls'[c].transporter.state = "fulfilled"
                 /\ calls'[d].transporter.state = "fulfilled"
                 /\ transports'[calls'[c].transporter.value].createdAt = calls'[c].now
                 /\ calls'[d].now >= calls'[c].now
                 /\ calls'[d].now - calls'[c].now < TRANSPORTER_TTL)
                => calls'[d].transporter = calls'[c].transporter]_vars

\* With credentials configured and an empty cache two calls were issued one right
\* after the other and are both waiting for their deliveries: one transport was
\* built and both use it.
C18_Witness ==
    /\ ~TestModeEnv(env)
    /\ overlap
    /\ Len(transports) = 1
    /\ io.createTransport = 1
    /\ \A c \in {1, 2} :
          /\ calls[c].pc = "awaitRace"
          /\ calls[c].transporter = Fulfilled(1)
          /\ calls[c].now = transports[1].createdAt

\* C13: at every frame every rendered column selects an index of its own logos,
\* 0 <= currentIndex < column length, whatever the logo list (the empty one included)
\* and the column count.
C13_EveryIndexIsValid ==
    /\ phase # "crashed"
    /\ \A k \in 1 .. Len(logoSets) :
          currentIndex[k] >= 0 /\ currentIndex[k] < Len(logoSets[k])

\* C19: whatever the random outcomes, distributeLogos returns exactly columnCount
\* columns, all of length ceil(n / columnCount), that hold only items of the input
\* and together hold every item of the input; the input array is left as it was.
C19_DistributeLogos ==
    [][(phase = "rendered" /\ phase' # "rendered")
       => /\ logos' = logos
          /\ Len(logoSets') = columnCount
          /\ \A k \in 1 .. Len(logoSets') :
                /\ Len(logoSets'[k]) = (Len(logos) + columnCount - 1) \div columnCount
                /\ Items(logoSets'[k]) \subseteq Items(logos)
          /\ \A x \in Items(logos) :
                \E k \in 1 .. Len(logoSets') : x \in Items(logoSets'[k])]_vars

\* Three logos were dealt into two columns in a shuffled order, and the shorter
\* column was filled up with a logo the other column shows as well.
C19_Witness ==
    /\ phase = "running"
    /\ logos = <<1, 2, 3>>
    /\ columnCount = 2
    /\ Len(logoSets) = 2
    /\ Len(logoSets[1]) = 2
    /\ Len(logoSets[2]) = 2
    /\ logoSets[1][1] # 1
    /\ logoSets[2][2] \in Items(logoSets[1])

====
